---- MODULE Spec2Model ----
(***************************************************************************)
(* A model of cli_mcp_server/server.py: the command validator and executor *)
(* (CommandExecutor), the configuration loader (load_security_config) and  *)
(* the tool handlers (handle_list_tools, handle_call_tool).                *)
(*                                                                         *)
(* A Python str is modelled as a sequence of one-character strings, so     *)
(* that substring search, tokenization, path normalisation and regular     *)
(* expression matching are computed character by character.                *)
(***************************************************************************)
EXTENDS Integers, Sequences, FiniteSets, TLC

(***************************************************************************)
(* Bounds of the model.                                                    *)
(***************************************************************************)
\* longest raw command string over the shell-syntax alphabet
MaxOpLen == 3
\* longest raw command string over the other alphabets
MaxLen == 5
\* longest run of a child process, in seconds
MaxDur == 2

(***************************************************************************)
(* String helpers (Python str operations).                                 *)
(***************************************************************************)
\* s[i:j] of Python, 0-based and half-open, for 0 <= i <= j <= len(s)
Slice(s, i, j) == [k \in 1..(j - i) |-> s[i + k]]

\* s.startswith(p)
StartsWith(s, p) == Len(p) <= Len(s) /\ Slice(s, 0, Len(p)) = p

\* p in s  (substring test)
Contains(s, p) == \E i \in 0..(Len(s) - Len(p)) : Slice(s, i, i + Len(p)) = p

\* c in s  for a single character c
HasChar(s, c) == \E i \in 1..Len(s) : s[i] = c

\* all strings over an alphabet of length at most n
RECURSIVE StringsUpTo(_, _)
StringsUpTo(alphabet, n) ==
    IF n = 0 THEN {<<>>}
    ELSE LET shorter == StringsUpTo(alphabet, n - 1)
         IN  shorter \cup {Append(s, c) : s \in {t \in shorter : Len(t) = n - 1},
                                          c \in alphabet}

\* s.split(sep) for a one-character separator: always at least one field
RECURSIVE SplitFrom(_, _, _, _)
SplitFrom(s, sep, i, cur) ==
    IF i > Len(s) THEN <<cur>>
    ELSE IF s[i] = sep THEN <<cur>> \o SplitFrom(s, sep, i + 1, <<>>)
    ELSE SplitFrom(s, sep, i + 1, Append(cur, s[i]))

Split(s, sep) == SplitFrom(s, sep, 1, <<>>)

\* set(xs)
ToSet(xs) == {xs[i] : i \in 1..Len(xs)}

(***************************************************************************)
(* shlex.split(s): shlex in POSIX mode with whitespace_split, no comments. *)
(* The lexer state is ' ' between tokens, 'a' inside a word, a quote       *)
(* character inside quotes and the escape character after a backslash.     *)
(***************************************************************************)
Whitespace == {" ", "\t", "\r", "\n"}
Quotes == {"'", "\""}
Escape == {"\\"}
EscapedQuotes == {"\""}

\* The result of shlex.split: the tokens, or the ValueError it raises.
RECURSIVE ShlexRun(_, _, _, _, _, _, _)
ShlexRun(s, i, state, escapedstate, token, quoted, out) ==
    IF i > Len(s) THEN
        \* end of input
        IF state \in Quotes THEN [error |-> "No closing quotation", parts |-> <<>>]
        ELSE IF state \in Escape THEN [error |-> "No escaped character", parts |-> <<>>]
        ELSE IF state = "a" /\ (token # <<>> \/ quoted)
             THEN [error |-> "", parts |-> Append(out, token)]
        ELSE [error |-> "", parts |-> out]
    ELSE
    LET c == s[i] IN
    IF state = " " THEN
        IF c \in Whitespace THEN ShlexRun(s, i + 1, " ", escapedstate, <<>>, FALSE, out)
        ELSE IF c \in Escape THEN ShlexRun(s, i + 1, c, "a", token, quoted, out)
        ELSE IF c \in Quotes THEN ShlexRun(s, i + 1, c, escapedstate, token, quoted, out)
        ELSE ShlexRun(s, i + 1, "a", escapedstate, <<c>>, quoted, out)
    ELSE IF state \in Quotes THEN
        IF c = state THEN ShlexRun(s, i + 1, "a", escapedstate, token, TRUE, out)
        ELSE IF c \in Escape /\ state \in EscapedQuotes
             THEN ShlexRun(s, i + 1, c, state, token, TRUE, out)
        ELSE ShlexRun(s, i + 1, state, escapedstate, Append(token, c), TRUE, out)
    ELSE IF state \in Escape THEN
        LET kept == IF escapedstate \in Quotes /\ c # state /\ c # escapedstate
                    THEN Append(token, state) ELSE token
        IN  ShlexRun(s, i + 1, escapedstate, escapedstate, Append(kept, c), quoted, out)
    ELSE
        \* state = "a": inside a word
        IF c \in Whitespace THEN
            ShlexRun(s, i + 1, " ", escapedstate, <<>>, FALSE,
                     IF token # <<>> \/ quoted THEN Append(out, token) ELSE out)
        ELSE IF c \in Quotes THEN ShlexRun(s, i + 1, c, escapedstate, token, quoted, out)
        ELSE IF c \in Escape THEN ShlexRun(s, i + 1, c, "a", token, quoted, out)
        ELSE ShlexRun(s, i + 1, "a", escapedstate, Append(token, c), quoted, out)

ShlexSplit(s) == ShlexRun(s, 1, " ", " ", <<>>, FALSE, <<>>)

(***************************************************************************)
(* posixpath: join, normpath, abspath, realpath.  The file system is the   *)
(* set of existing directories and the symbolic links below; a path is a   *)
(* string, and its components are the strings between the '/' characters.  *)
(***************************************************************************)
Sep == "/"
RootPath == <<"/">>

\* the process's working directory (os.getcwd())
Cwd == RootPath

\* Existing directories, as component lists: /, /r, /rr
Dirs == {<<>>, << <<"r">> >>, << <<"r", "r">> >>}

\* Symbolic links, as component lists: /r/r -> /
Links == (<< <<"r">>, <<"r">> >> :> <<>>)

IsAbs(p) == StartsWith(p, <<Sep>>)

\* posixpath.join(a, b)
Join(a, b) ==
    IF IsAbs(b) THEN b
    ELSE IF a = <<>> \/ a[Len(a)] = Sep THEN a \o b
    ELSE a \o <<Sep>> \o b

\* "/".join(comps)
RECURSIVE JoinComps(_)
JoinComps(comps) ==
    IF comps = <<>> THEN <<>>
    ELSE IF Len(comps) = 1 THEN comps[1]
    ELSE comps[1] \o <<Sep>> \o JoinComps(Tail(comps))

\* the loop of posixpath.normpath over the components
RECURSIVE NormComps(_, _, _)
NormComps(comps, initial_slashes, new_comps) ==
    IF comps = <<>> THEN new_comps
    ELSE LET comp == Head(comps) IN
         IF comp = <<>> \/ comp = <<".">>
         THEN NormComps(Tail(comps), initial_slashes, new_comps)
         ELSE IF comp # <<".", ".">>
                 \/ (initial_slashes = 0 /\ new_comps = <<>>)
                 \/ (new_comps # <<>> /\ new_comps[Len(new_comps)] = <<".", ".">>)
         THEN NormComps(Tail(comps), initial_slashes, Append(new_comps, comp))
         ELSE IF new_comps # <<>>
         THEN NormComps(Tail(comps), initial_slashes, SubSeq(new_comps, 1, Len(new_comps) - 1))
         ELSE NormComps(Tail(comps), initial_slashes, new_comps)

\* initial_slashes of normpath: exactly two leading slashes are kept as two
InitialSlashes(path) ==
    IF ~IsAbs(path) THEN 0
    ELSE IF StartsWith(path, <<Sep, Sep>>) /\ ~StartsWith(path, <<Sep, Sep, Sep>>) THEN 2
    ELSE 1

\* path or "."
OrDot(path) == IF path = <<>> THEN <<".">> ELSE path

\* normpath, once initial_slashes is known
NormPathWith(path, initial_slashes) ==
    OrDot([k \in 1..initial_slashes |-> Sep]
              \o JoinComps(NormComps(Split(path, Sep), initial_slashes, <<>>)))

\* posixpath.normpath(path)
NormPath(path) ==
    IF path = <<>> THEN <<".">> ELSE NormPathWith(path, InitialSlashes(path))

\* posixpath.abspath(path)
AbsPath(path) == NormPath(IF IsAbs(path) THEN path ELSE Join(Cwd, path))

\* posixpath._joinrealpath: components are resolved left to right, '..' pops
\* the resolved path and a symbolic link is replaced by its resolved target
RECURSIVE JoinRealPath(_, _)
JoinRealPath(path, rest) ==
    IF rest = <<>> THEN path
    ELSE LET name == Head(rest) IN
         IF name = <<>> \/ name = <<".">> THEN JoinRealPath(path, Tail(rest))
         ELSE IF name = <<".", ".">>
         THEN JoinRealPath(IF path = <<>> THEN path ELSE SubSeq(path, 1, Len(path) - 1),
                           Tail(rest))
         ELSE LET newpath == Append(path, name) IN
              IF newpath \in DOMAIN Links
              THEN JoinRealPath(JoinRealPath(<<>>, Links[newpath]), Tail(rest))
              ELSE JoinRealPath(newpath, Tail(rest))

\* the canonical components of a path (relative paths start at the cwd)
RealComps(path) == JoinRealPath(<<>>, Split(IF IsAbs(path) THEN path ELSE Join(Cwd, path), Sep))

\* posixpath.realpath(path), not strict
RealPath(path) == <<Sep>> \o JoinComps(RealComps(path))

\* os.path.exists(path): the path, symbolic links followed, names a directory
Exists(path) == RealComps(path) \in Dirs

(***************************************************************************)
(* re: the subset of the pattern language the configuration uses.  A       *)
(* pattern is parsed into items: '^', '$', or a character set (a literal,  *)
(* '.', an escape or a [...] class) with an optional '+' or '*'.  A        *)
(* repeat with nothing before it is re.error ("nothing to repeat").        *)
(***************************************************************************)
LowerCase == <<"a","b","c","d","e","f","g","h","i","j","k","l","m",
               "n","o","p","q","r","s","t","u","v","w","x","y","z">>
UpperCase == <<"A","B","C","D","E","F","G","H","I","J","K","L","M",
               "N","O","P","Q","R","S","T","U","V","W","X","Y","Z">>
Digits == <<"0","1","2","3","4","5","6","7","8","9">>
Punctuation == {" ", "\t", "\r", "\n", "'", "\"", "\\", ";", "|", ">", "<", "&",
                "-", ".", "/", "*", "_", ",", "^", "$", "[", "]", "+"}

\* \w
WordChars == ToSet(LowerCase) \cup ToSet(UpperCase) \cup ToSet(Digits) \cup {"_"}
\* every character of the model
AllChars == WordChars \cup Punctuation

\* the characters lo..hi of a range inside a class
RangeIn(order, lo, hi) ==
    IF lo \in ToSet(order) /\ hi \in ToSet(order)
    THEN LET a == CHOOSE k \in 1..Len(order) : order[k] = lo
             b == CHOOSE k \in 1..Len(order) : order[k] = hi
         IN  {order[k] : k \in a..b}
    ELSE {}
RangeSet(lo, hi) == RangeIn(LowerCase, lo, hi) \cup RangeIn(UpperCase, lo, hi)
                        \cup RangeIn(Digits, lo, hi)

\* what an escape \c stands for
EscapeSet(c) == IF c = "w" THEN WordChars ELSE {c}

\* the members of a class, from position i (after '[') to the closing ']':
\* [chars, next] with next = 0 when the class is not closed
RECURSIVE ParseClass(_, _, _)
ParseClass(p, i, acc) ==
    IF i > Len(p) THEN [chars |-> acc, next |-> 0]
    ELSE IF p[i] = "]" THEN [chars |-> acc, next |-> i + 1]
    ELSE IF p[i] = "\\" THEN
        IF i + 1 > Len(p) THEN [chars |-> acc, next |-> 0]
        ELSE ParseClass(p, i + 2, acc \cup EscapeSet(p[i + 1]))
    ELSE IF i + 2 <= Len(p) /\ p[i + 1] = "-" /\ p[i + 2] # "]"
         THEN ParseClass(p, i + 3, acc \cup RangeSet(p[i], p[i + 2]))
    ELSE ParseClass(p, i + 1, acc \cup {p[i]})

Item(k, chars, rep) == [k |-> k, chars |-> chars, rep |-> rep]

\* re.compile(p): the items, or error
RECURSIVE ReParse(_, _, _), ReParseAtom(_, _, _), ReParseItem(_, _, _)
\* the atom at position i: its characters and the position after it, 0 when
\* the pattern ends inside it
ParseAtom(p, i) ==
    IF p[i] = "[" THEN ParseClass(p, i + 1, {})
    ELSE IF p[i] = "\\" THEN
        IF i + 1 > Len(p) THEN [chars |-> {}, next |-> 0]
        ELSE [chars |-> EscapeSet(p[i + 1]), next |-> i + 2]
    ELSE IF p[i] = "." THEN [chars |-> AllChars \ {"\n"}, next |-> i + 1]
    ELSE [chars |-> {p[i]}, next |-> i + 1]

\* the item an atom makes with the repeat that may follow it
AtomItem(p, atom) ==
    IF atom.next <= Len(p) /\ p[atom.next] \in {"*", "+"}
    THEN [item |-> Item("set", atom.chars, p[atom.next]), next |-> atom.next + 1]
    ELSE [item |-> Item("set", atom.chars, "1"), next |-> atom.next]

\* the items of the pattern from position i on, after those parsed already;
\* error (re.error) for a repeat with nothing to repeat or an open class
ReParse(p, i, items) ==
    IF i > Len(p) THEN [error |-> FALSE, items |-> items]
    ELSE IF p[i] = "^" THEN ReParse(p, i + 1, Append(items, Item("bol", {}, "1")))
    ELSE IF p[i] = "$" THEN ReParse(p, i + 1, Append(items, Item("eol", {}, "1")))
    ELSE IF p[i] \in {"*", "+"} THEN [error |-> TRUE, items |-> <<>>]
    ELSE ReParseAtom(p, items, ParseAtom(p, i))

\* the atom at the position parsed, or the error of parsing it
ReParseAtom(p, items, atom) ==
    IF atom.next = 0 THEN [error |-> TRUE, items |-> <<>>]
    ELSE ReParseItem(p, items, AtomItem(p, atom))

\* the atom with its repeat becomes an item; the rest is parsed after it
ReParseItem(p, items, made) == ReParse(p, made.next, Append(items, made.item))

\* re.compile(p), as re.match does it: the items, or re.error
ReCompile(p) == ReParse(p, 1, <<>>)

\* whether items j.. match s from offset i; with full, only up to the end of s
RECURSIVE MatchFrom(_, _, _, _, _)
MatchFrom(items, j, s, i, full) ==
    IF j > Len(items) THEN (~full \/ i = Len(s))
    ELSE LET it == items[j] IN
         IF it.k = "bol" THEN i = 0 /\ MatchFrom(items, j + 1, s, i, full)
         ELSE IF it.k = "eol"
         THEN (i = Len(s) \/ (i = Len(s) - 1 /\ s[Len(s)] = "\n"))
              /\ MatchFrom(items, j + 1, s, i, full)
         ELSE IF it.rep = "1"
         THEN i < Len(s) /\ s[i + 1] \in it.chars /\ MatchFrom(items, j + 1, s, i + 1, full)
         ELSE \E e \in (IF it.rep = "+" THEN i + 1 ELSE i)..Len(s) :
                  /\ \A k \in (i + 1)..e : s[k] \in it.chars
                  /\ MatchFrom(items, j + 1, s, e, full)

\* re.match(pattern, s) is not None, for a pattern that compiles
ReMatch(items, s) == MatchFrom(items, 1, s, 0, FALSE)

(***************************************************************************)
(* The environment (os.environ) and load_security_config.                  *)
(***************************************************************************)
\* os.getenv(name, default)
Getenv(env, name, default) == IF name \in DOMAIN env THEN env[name] ELSE default

DefaultAllowedCommands == <<"l","s",",","c","a","t",",","p","w","d">>
DefaultAllowedFlags == <<"-","l",",","-","a",",","-","-","h","e","l","p">>
DefaultAllowedPatterns == <<"*",".","t","x","t",",","*",".","l","o","g",",","*",".","m","d">>
DefaultMaxCommandLength == <<"1","0","2","4">>
DefaultCommandTimeout == <<"3","0">>
\* r"^[\w\-. ]+$", the basic filename pattern
BasicFilenamePattern == <<"^","[","\\","w","\\","-","."," ","]","+","$">>

\* the value of a decimal digit
DigitValue(c) == (CHOOSE k \in 1..Len(Digits) : Digits[k] = c) - 1

\* the value of the digits from the i-th on, after those read already
RECURSIVE DecimalValue(_, _, _)
DecimalValue(s, i, acc) ==
    IF i > Len(s) THEN acc ELSE DecimalValue(s, i + 1, 10 * acc + DigitValue(s[i]))

\* the value of a sign and digits; ValueError when they are not digits
SignedDecimal(negative, digits) ==
    IF digits = <<>> \/ \E i \in 1..Len(digits) : digits[i] \notin ToSet(Digits)
    THEN [error |-> TRUE, value |-> 0]
    ELSE [error |-> FALSE,
          value |-> IF negative THEN 0 - DecimalValue(digits, 1, 0)
                    ELSE DecimalValue(digits, 1, 0)]

\* int(s) for a decimal literal with an optional sign; anything else is
\* ValueError
ParseInt(s) ==
    IF s # <<>> /\ s[1] \in {"-", "+"} THEN SignedDecimal(s[1] = "-", Tail(s))
    ELSE SignedDecimal(FALSE, s)

\* the SecurityConfig dataclass: its fields, taken as given
SecurityConfig(commands, flags, patterns, max_len, timeout) ==
    [allowed_commands |-> commands,
     allowed_flags |-> flags,
     allowed_patterns |-> patterns,
     max_command_length |-> max_len,
     command_timeout |-> timeout]

\* the SecurityConfig that load_security_config builds, from what int()
\* returned or raised for the two numeric variables
LoadedConfig(env, max_len, timeout) ==
    [error |-> max_len.error \/ timeout.error,
     config |-> SecurityConfig(
         ToSet(Split(Getenv(env, "ALLOWED_COMMANDS", DefaultAllowedCommands), ",")),
         ToSet(Split(Getenv(env, "ALLOWED_FLAGS", DefaultAllowedFlags), ",")),
         <<BasicFilenamePattern>>
             \o Split(Getenv(env, "ALLOWED_PATTERNS", DefaultAllowedPatterns), ","),
         max_len.value,
         timeout.value)]

\* load_security_config(): the configuration, or the ValueError of int()
LoadSecurityConfig(env) ==
    LoadedConfig(env,
                 ParseInt(Getenv(env, "MAX_COMMAND_LENGTH", DefaultMaxCommandLength)),
                 ParseInt(Getenv(env, "COMMAND_TIMEOUT", DefaultCommandTimeout)))

\* the executor before the module has made one
NoExecutor == [allowed_dir |-> <<>>, security_config |-> SecurityConfig({}, {}, <<>>, 0, 0)]

\* CommandExecutor.__init__: the executor, or ValueError
NewExecutor(allowed_dir, security_config) ==
    IF allowed_dir = <<>> \/ ~Exists(allowed_dir)
    THEN [error |-> TRUE, executor |-> NoExecutor]
    ELSE [error |-> FALSE,
          executor |-> [allowed_dir |-> AbsPath(RealPath(allowed_dir)),
                        security_config |-> security_config]]

\* The outcome of a call: exc is the exception that leaves it ("" when it
\* returns), kind the rejection it reports, cause the wrapped error, token
\* the operator or token the message names; command and args are returned.
Outcome(exc, kind, cause, token, command, args) ==
    [exc |-> exc, kind |-> kind, cause |-> cause, token |-> token,
     command |-> command, args |-> args]

\* raise CommandSecurityError(...) for a rejection of that kind
Rejected(kind, token) == Outcome("CommandSecurityError", kind, "", token, <<>>, <<>>)
\* return command, args
Accepted(command, args) == Outcome("", "ok", "", <<>>, command, args)
\* nothing returned and nothing raised
NoOutcome == Outcome("", "none", "", <<>>, <<>>, <<>>)

\* shell_operators, in the order the scan tries them
ShellOperators == << <<"&","&">>, <<"|","|">>, <<"|">>, <<">">>, <<">",">">>,
                     <<"<">>, <<"<","<">>, <<";">> >>

\* _is_path_safe(path)
IsPathSafe(ex, path) == StartsWith(AbsPath(RealPath(path)), ex.allowed_dir)

\* any(re.match(pattern, arg) for pattern in allowed_patterns), pattern by
\* pattern: "match", "nomatch", or "error" when a pattern does not compile
RECURSIVE AnyPatternMatches(_, _, _), PatternMatches(_, _, _, _)
AnyPatternMatches(patterns, i, arg) ==
    IF i > Len(patterns) THEN "nomatch"
    ELSE PatternMatches(patterns, i, arg, ReCompile(patterns[i]))

\* re.match(patterns[i], arg), then the patterns after it
PatternMatches(patterns, i, arg, re) ==
    IF re.error THEN "error"
    ELSE IF ReMatch(re.items, arg) THEN "match"
    ELSE AnyPatternMatches(patterns, i + 1, arg)

\* "/" in arg or "\\" in arg or os.path.isabs(arg)
LooksLikePath(arg) == HasChar(arg, "/") \/ HasChar(arg, "\\") \/ IsAbs(arg)

\* the pattern check of an argument, from what any(...) gave or raised
CheckPatterns(arg, m) ==
    IF m = "error" THEN Outcome("re.error", "PatternError", "re.error", arg, <<>>, <<>>)
    ELSE IF m = "nomatch" THEN Rejected("ArgumentNotAllowed", arg)
    ELSE NoOutcome

\* a variant of the loop body in which an argument that extends an allowed
\* flag passes the flag check
CheckArgFlagPrefix(ex, arg) ==
    IF StartsWith(arg, <<"-">>) THEN
        IF \A f \in ex.security_config.allowed_flags : ~StartsWith(arg, f)
        THEN Rejected("FlagNotAllowed", arg)
        ELSE NoOutcome
    ELSE IF LooksLikePath(arg) /\ ~IsPathSafe(ex, AbsPath(Join(ex.allowed_dir, arg)))
    THEN Rejected("PathNotAllowed", arg)
    ELSE CheckPatterns(arg, AnyPatternMatches(ex.security_config.allowed_patterns, 1, arg))

\* a variant of the loop body that checks the patterns before the path
CheckArgPatternFirst(ex, arg) ==
    IF StartsWith(arg, <<"-">>) THEN
        IF arg \notin ex.security_config.allowed_flags
        THEN Rejected("FlagNotAllowed", arg)
        ELSE NoOutcome
    ELSE IF AnyPatternMatches(ex.security_config.allowed_patterns, 1, arg) # "match"
    THEN CheckPatterns(arg, AnyPatternMatches(ex.security_config.allowed_patterns, 1, arg))
    ELSE IF LooksLikePath(arg) /\ ~IsPathSafe(ex, AbsPath(Join(ex.allowed_dir, arg)))
    THEN Rejected("PathNotAllowed", arg)
    ELSE NoOutcome

\* the body of the loop over args, for one argument: nothing, or what it
\* raises
CheckArg(ex, arg) ==
    IF StartsWith(arg, <<"-">>) THEN
        IF arg \notin ex.security_config.allowed_flags
        THEN Rejected("FlagNotAllowed", arg)
        ELSE NoOutcome
    ELSE IF LooksLikePath(arg) /\ ~IsPathSafe(ex, AbsPath(Join(ex.allowed_dir, arg)))
    THEN Rejected("PathNotAllowed", arg)
    ELSE CheckPatterns(arg, AnyPatternMatches(ex.security_config.allowed_patterns, 1, arg))

\* the loop over args, from the i-th on: it ends at the first that raises
RECURSIVE CheckArgs(_, _, _), CheckNext(_, _, _, _)
CheckArgs(ex, args, i) ==
    IF i > Len(args) THEN NoOutcome ELSE CheckNext(ex, args, i, CheckArg(ex, args[i]))

\* the loop after the check of the i-th argument gave r
CheckNext(ex, args, i, r) == IF r.kind # "none" THEN r ELSE CheckArgs(ex, args, i + 1)

\* the first of the operators, in the order of the list, that is in the
\* string; <<>> when none is
RECURSIVE FirstOperator(_, _)
FirstOperator(command_string, i) ==
    IF i > Len(ShellOperators) THEN <<>>
    ELSE IF Contains(command_string, ShellOperators[i]) THEN ShellOperators[i]
    ELSE FirstOperator(command_string, i + 1)

\* the checks after the command name: the arguments, then the return
ValidateArgs(command, args, r) == IF r.kind # "none" THEN r ELSE Accepted(command, args)

\* the checks of the parts shlex.split returned
ValidateParts(ex, command, args) ==
    IF command \notin ex.security_config.allowed_commands
    THEN Rejected("CommandNotAllowed", command)
    ELSE ValidateArgs(command, args, CheckArgs(ex, args, 1))

\* the try block, from what shlex.split returned or raised
ValidateSplit(ex, split) ==
    IF split.error # ""
    THEN Outcome("CommandSecurityError", "InvalidCommandFormat", split.error, <<>>, <<>>, <<>>)
    ELSE IF split.parts = <<>> THEN Rejected("EmptyCommand", <<>>)
    ELSE ValidateParts(ex, Head(split.parts), Tail(split.parts))

\* the operator scan, then the try block
ValidateScanned(ex, command_string, operator) ==
    IF operator # <<>> THEN Rejected("UnsupportedOperator", operator)
    ELSE ValidateSplit(ex, ShlexSplit(command_string))

\* a variant of validate_command that tokenizes before it scans for operators
ValidateCommandSplitFirst(ex, command_string) ==
    IF ShlexSplit(command_string).error # ""
    THEN ValidateSplit(ex, ShlexSplit(command_string))
    ELSE ValidateScanned(ex, command_string, FirstOperator(command_string, 1))

\* validate_command(command_string): what it returns or raises
ValidateCommand(ex, command_string) ==
    ValidateScanned(ex, command_string, FirstOperator(command_string, 1))

\* the child process of a call: none, or one that needed so long and was
\* reaped after it exited or killed at the timeout
Child(status, needs) == [status |-> status, needs |-> needs]
\* no process was started
NoChild == Child("none", 0)

\* a variant of subprocess.run that starts the command again after a timeout
SubprocessRunRetry(argv, timeout, started, needs) ==
    IF ~started THEN [exc |-> "FileNotFoundError", spawned |-> <<argv>>, child |-> NoChild]
    ELSE IF needs > timeout
    THEN [exc |-> "TimeoutExpired", spawned |-> <<argv, argv>>, child |-> Child("killed", needs)]
    ELSE [exc |-> "", spawned |-> <<argv>>, child |-> Child("reaped", needs)]

\* subprocess.run(argv, timeout=timeout): exc is what it raises, "" when it
\* returns a CompletedProcess; on a timeout the child is killed and reaped
SubprocessRun(argv, timeout, started, needs) ==
    IF ~started THEN [exc |-> "FileNotFoundError", spawned |-> <<argv>>, child |-> NoChild]
    ELSE IF needs > timeout
    THEN [exc |-> "TimeoutExpired", spawned |-> <<argv>>, child |-> Child("killed", needs)]
    ELSE [exc |-> "", spawned |-> <<argv>>, child |-> Child("reaped", needs)]

\* what a call of execute leaves: its outcome, the argument vectors handed
\* to the operating system, the child
Result(outcome, spawned, child) == [outcome |-> outcome, spawned |-> spawned, child |-> child]

\* execute, from what subprocess.run returned or raised: every exception is
\* wrapped in CommandSecurityError("Command execution failed: ...")
ExecuteRun(v, run) ==
    IF run.exc # ""
    THEN Result(Outcome("CommandSecurityError", "ExecutionFailed", run.exc,
                        <<>>, v.command, v.args), run.spawned, run.child)
    ELSE Result(Outcome("", "completed", "", <<>>, v.command, v.args),
                run.spawned, run.child)

\* execute, from what validate_command returned or raised: a
\* CommandSecurityError is raised again, any other exception is wrapped
ExecuteValidated(ex, v, started, needs) ==
    IF v.exc = "CommandSecurityError" THEN Result(v, <<>>, NoChild)
    ELSE IF v.exc # ""
    THEN Result(Outcome("CommandSecurityError", "ExecutionFailed", v.exc, v.token,
                        <<>>, <<>>), <<>>, NoChild)
    ELSE ExecuteRun(v, SubprocessRun(<<v.command>> \o v.args,
                                     ex.security_config.command_timeout, started, needs))

\* a variant of execute that validates the string before it checks its length
ExecuteValidateFirst(ex, command_string, started, needs) ==
    IF ValidateCommand(ex, command_string).exc # ""
    THEN ExecuteValidated(ex, ValidateCommand(ex, command_string), started, needs)
    ELSE IF Len(command_string) > ex.security_config.max_command_length
    THEN Result(Rejected("CommandTooLong", <<>>), <<>>, NoChild)
    ELSE ExecuteValidated(ex, ValidateCommand(ex, command_string), started, needs)

\* execute(command_string): started tells whether the operating system can
\* start the command, needs how long the process runs
Execute(ex, command_string, started, needs) ==
    IF Len(command_string) > ex.security_config.max_command_length
    THEN Result(Rejected("CommandTooLong", <<>>), <<>>, NoChild)
    ELSE ExecuteValidated(ex, ValidateCommand(ex, command_string), started, needs)

\* the run_command branch of handle_call_tool: which of its returns answers
\* the outcome of execute
RunCommandResponse(outcome) ==
    IF outcome.exc = "" THEN "completed"
    ELSE IF outcome.exc = "CommandSecurityError" THEN "security_violation"
    ELSE IF outcome.exc = "TimeoutExpired" THEN "timed_out"
    ELSE "error"

\* a variant of show_security_rules that empties the pattern list as it
\* formats it
ShowSecurityRulesConsuming(ex) == [ex EXCEPT !.security_config.allowed_patterns = <<>>]

\* the executor after show_security_rules has formatted its fields
ShowSecurityRules(ex) == ex

(***************************************************************************)
(* The environments the server is started in, each with the alphabet and   *)
(* the longest length of the command strings sent to it.                   *)
(***************************************************************************)
ShellAlphabet == {"l", " ", "'", "\"", "\\", ";", "|", ">", "<", "&"}
PathAlphabet == {"r", " ", "/", "."}
NameAlphabet == {"s", "S", " ", "-", "/"}
DefaultAlphabet == {"l", "s", " ", "/"}
SmallAlphabet == {"l", " ", "'"}

Scenario(env, alphabet, maxlen) == [environ |-> env, alphabet |-> alphabet, maxlen |-> maxlen]

Scenarios == {
    \* shell syntax: operators, quoting, escapes; a short length limit
    Scenario([ALLOWED_DIR |-> <<"/","r">>, ALLOWED_COMMANDS |-> <<"l">>,
              MAX_COMMAND_LENGTH |-> <<"2">>], ShellAlphabet, MaxOpLen),
    \* paths: /r is the root, /rr a sibling, /r/r a link to /
    Scenario([ALLOWED_DIR |-> <<"/","r">>, ALLOWED_COMMANDS |-> <<"r">>,
              ALLOWED_PATTERNS |-> <<"/","r","+">>, COMMAND_TIMEOUT |-> <<"1">>],
             PathAlphabet, MaxLen),
    \* names: commands and flags that differ from an allowed one by a
    \* character or by case
    Scenario([ALLOWED_DIR |-> <<"/","r","/">>, ALLOWED_COMMANDS |-> <<"s","s",",","S">>,
              ALLOWED_FLAGS |-> <<"-","s">>, ALLOWED_PATTERNS |-> <<"[","a","-","z","]","+">>],
             NameAlphabet, MaxLen),
    \* every variable but ALLOWED_DIR unset: the defaults
    Scenario([ALLOWED_DIR |-> <<"/","r">>], DefaultAlphabet, MaxLen),
    \* limits that are not positive, an empty ALLOWED_COMMANDS
    Scenario([ALLOWED_DIR |-> <<"/","r">>, ALLOWED_COMMANDS |-> <<>>,
              MAX_COMMAND_LENGTH |-> <<"0">>], SmallAlphabet, MaxOpLen),
    Scenario([ALLOWED_DIR |-> <<"/","r">>, ALLOWED_COMMANDS |-> <<"l">>,
              MAX_COMMAND_LENGTH |-> <<"-","1">>, COMMAND_TIMEOUT |-> <<"0">>],
             SmallAlphabet, MaxOpLen),
    \* starts that fail: no ALLOWED_DIR, one that does not exist, a limit
    \* that is no number
    Scenario([ALLOWED_COMMANDS |-> <<"l">>], SmallAlphabet, MaxOpLen),
    Scenario([ALLOWED_DIR |-> <<"/","x">>], SmallAlphabet, MaxOpLen),
    Scenario([ALLOWED_DIR |-> <<"/","r">>, COMMAND_TIMEOUT |-> <<"l">>],
             SmallAlphabet, MaxOpLen) }

\* the command strings sent to a server started in env
CommandStrings(env) ==
    UNION {StringsUpTo(sc.alphabet, sc.maxlen) : sc \in {x \in Scenarios : x.environ = env}}

(***************************************************************************)
(* The state.                                                              *)
(***************************************************************************)
VARIABLES
    phase,      \* "boot" before the module is loaded, then "up", or "down"
    environ,    \* os.environ
    executor,   \* the module's executor
    op,         \* the call that has just run, "idle" between calls
    raw,        \* its command string
    outcome,    \* what validate_command or execute returned or raised
    spawned,    \* the argument vectors the call handed to the operating system
    child,      \* the child process of the call
    response    \* what the handler answered

vars == <<phase, environ, executor, op, raw, outcome, spawned, child, response>>

\* no call is running
Idle == /\ op = "idle" /\ raw = <<>> /\ outcome = NoOutcome /\ spawned = <<>>
        /\ child = NoChild /\ response = "none"

\* the process before the module is loaded, in one of the environments
Init ==
    /\ phase = "boot"
    /\ environ \in {sc.environ : sc \in Scenarios}
    /\ executor = NoExecutor
    /\ Idle

\* the state after loading, from what load_security_config and
\* CommandExecutor(...) returned or raised: an exception ends the process
Started(loaded, made) ==
    IF loaded.error \/ made.error
    THEN phase' = "down" /\ executor' = executor
    ELSE phase' = "up" /\ executor' = made.executor

\* loading the module: executor = CommandExecutor(os.getenv("ALLOWED_DIR", ""),
\* load_security_config())
Startup ==
    /\ phase = "boot"
    /\ Started(LoadSecurityConfig(environ),
               NewExecutor(Getenv(environ, "ALLOWED_DIR", <<>>),
                           LoadSecurityConfig(environ).config))
    /\ UNCHANGED <<environ, op, raw, outcome, spawned, child, response>>

\* executor.validate_command(s), called on its own
CallValidateCommand ==
    /\ phase = "up" /\ op = "idle"
    /\ \E s \in CommandStrings(environ) :
        /\ raw' = s
        /\ outcome' = ValidateCommand(executor, s)
    /\ op' = "validate_command"
    /\ UNCHANGED <<phase, environ, executor, spawned, child, response>>

\* the state after execute has returned or raised r
RunCommandResult(s, r) ==
    /\ raw' = s
    /\ outcome' = r.outcome
    /\ spawned' = r.spawned
    /\ child' = r.child
    /\ response' = RunCommandResponse(r.outcome)

\* handle_call_tool("run_command", {"command": s})
CallRunCommand ==
    /\ phase = "up" /\ op = "idle"
    /\ \E s \in CommandStrings(environ), started \in BOOLEAN, needs \in 1..MaxDur :
        RunCommandResult(s, Execute(executor, s, started, needs))
    /\ op' = "run_command"
    /\ UNCHANGED <<phase, environ, executor>>

\* handle_call_tool("run_command", {}) or with an empty command
CallRunCommandNoCommand ==
    /\ phase = "up" /\ op = "idle"
    /\ op' = "run_command_no_command"
    /\ response' = "no_command_provided"
    /\ UNCHANGED <<phase, environ, executor, raw, outcome, spawned, child>>

\* handle_call_tool("show_security_rules", ...)
CallShowSecurityRules ==
    /\ phase = "up" /\ op = "idle"
    /\ op' = "show_security_rules"
    /\ executor' = ShowSecurityRules(executor)
    /\ response' = "security_info"
    /\ UNCHANGED <<phase, environ, raw, outcome, spawned, child>>

\* handle_call_tool with any other name raises ValueError
CallUnknownTool ==
    /\ phase = "up" /\ op = "idle"
    /\ op' = "unknown_tool"
    /\ response' = "ValueError"
    /\ UNCHANGED <<phase, environ, executor, raw, outcome, spawned, child>>

\* handle_list_tools()
ListTools ==
    /\ phase = "up" /\ op = "idle"
    /\ op' = "list_tools"
    /\ response' = "tools"
    /\ UNCHANGED <<phase, environ, executor, raw, outcome, spawned, child>>

\* the call is over; nothing of it is kept
Return ==
    /\ op # "idle"
    /\ op' = "idle" /\ raw' = <<>> /\ outcome' = NoOutcome /\ spawned' = <<>>
    /\ child' = NoChild /\ response' = "none"
    /\ UNCHANGED <<phase, environ, executor>>

\* one step of the server
Next ==
    \/ Startup
    \/ CallValidateCommand
    \/ CallRunCommand
    \/ CallRunCommandNoCommand
    \/ CallShowSecurityRules
    \/ CallUnknownTool
    \/ ListTools
    \/ Return

\* the server, from its start
Spec == Init /\ [][Next]_vars

(***************************************************************************)
(* What the properties below speak of.                                     *)
(***************************************************************************)
Config == executor.security_config

\* validate_command has just run on raw
Validated == phase = "up" /\ op = "validate_command"
\* handle_call_tool has just run execute on raw
Executed == phase = "up" /\ op = "run_command"

\* the operators that occur in a string
OperatorsIn(s) == {o \in ToSet(ShellOperators) : Contains(s, o)}

\* the string has no operator, its quoting is well formed and it has a token
Tokenized == /\ OperatorsIn(raw) = {}
             /\ ShlexSplit(raw).error = ""
             /\ ShlexSplit(raw).parts # <<>>
\* its first token and the tokens after it
Command == Head(ShlexSplit(raw).parts)
Args == Tail(ShlexSplit(raw).parts)

\* the token starts with '-'
FlagShaped(arg) == StartsWith(arg, <<"-">>)

\* the checks of one argument token, each on its own
PassesFlagCheck(arg) == arg \in Config.allowed_flags
PassesPathCheck(arg) ==
    ~LooksLikePath(arg) \/ IsPathSafe(executor, AbsPath(Join(executor.allowed_dir, arg)))
PatternCheck(arg) == AnyPatternMatches(Config.allowed_patterns, 1, arg)
ArgPasses(arg) ==
    IF FlagShaped(arg) THEN PassesFlagCheck(arg)
    ELSE PassesPathCheck(arg) /\ PatternCheck(arg) = "match"

\* every token of args passes its checks
AllPass(args) == \A j \in 1..Len(args) : ArgPasses(args[j])

\* the tokens of args before the i-th
Earlier(args, i) == SubSeq(args, 1, i - 1)

\* the path a token names, canonical: components resolved from the sandbox
\* root, left to right, links followed and '..' applied to the resolved path
Canonical(arg) == RealComps(Join(executor.allowed_dir, arg))
RootComps == RealComps(executor.allowed_dir)
InsideRoot(comps) ==
    Len(RootComps) <= Len(comps) /\ SubSeq(comps, 1, Len(RootComps)) = RootComps

\* some pattern matches the whole token
FullyMatched(arg) ==
    \E k \in 1..Len(Config.allowed_patterns) :
        /\ ~ReCompile(Config.allowed_patterns[k]).error
        /\ MatchFrom(ReCompile(Config.allowed_patterns[k]).items, 1, arg, 0, TRUE)

\* the executor the environment constructs
Constructed ==
    NewExecutor(Getenv(environ, "ALLOWED_DIR", <<>>), LoadSecurityConfig(environ).config).executor

\* every non-flag token of args that lies outside the root is what is
\* rejected, as path-not-allowed, when the tokens before it pass
OutsideRejected(args) ==
    \A i \in 1..Len(args) :
        (~FlagShaped(args[i]) /\ AllPass(Earlier(args, i)) /\ ~InsideRoot(Canonical(args[i]))) =>
            outcome.kind = "PathNotAllowed" /\ outcome.token = args[i]

\* every flag of args that is no member of allowed_flags fails the call, and
\* is what is rejected, as flag-not-allowed, when the tokens before it pass
ExactFlags(args) ==
    \A i \in 1..Len(args) :
        (FlagShaped(args[i]) /\ ~PassesFlagCheck(args[i])) =>
            /\ outcome.exc # ""
            /\ AllPass(Earlier(args, i)) =>
                   outcome.kind = "FlagNotAllowed" /\ outcome.token = args[i]

\* what the checks of one failing token report, in their order; a pattern
\* that does not compile ends the pattern check with its error
ArgFailure(arg) ==
    IF FlagShaped(arg) THEN "FlagNotAllowed"
    ELSE IF ~PassesPathCheck(arg) THEN "PathNotAllowed"
    ELSE IF PatternCheck(arg) = "nomatch" THEN "ArgumentNotAllowed"
    ELSE "PatternError"

\* the first token of args that fails a check
FirstFailing(args) ==
    args[CHOOSE i \in 1..Len(args) : ~ArgPasses(args[i]) /\ AllPass(Earlier(args, i))]

\* the outcome is the failure of that token
Reports(arg) == outcome.kind = ArgFailure(arg) /\ outcome.token = arg

(***************************************************************************)
(* C1.  A string that contains a shell operator, anywhere, is rejected by  *)
(* validate_command as an unsupported operator, and the operator named is  *)
(* one that occurs in the string -- whatever the quoting and whatever the  *)
(* allowlists hold.                                                        *)
(***************************************************************************)
C1_OperatorRejected ==
    (Validated /\ OperatorsIn(raw) # {}) =>
        /\ outcome.exc = "CommandSecurityError"
        /\ outcome.kind = "UnsupportedOperator"
        /\ outcome.token \in OperatorsIn(raw)

\* an operator in a string whose quoting is malformed
C1_Witness ==
    /\ Validated
    /\ OperatorsIn(raw) # {}
    /\ ShlexSplit(raw).error # ""
    /\ outcome.kind = "UnsupportedOperator"

(***************************************************************************)
(* C2.  A non-flag argument token that, joined to the sandbox root and     *)
(* canonicalized, lies outside the root is rejected as path-not-allowed,   *)
(* when the command name and the tokens before it pass their checks.       *)
(***************************************************************************)
C2_OutsideRejected ==
    (Validated /\ Tokenized /\ Command \in Config.allowed_commands) => OutsideRejected(Args)

(***************************************************************************)
(* C3.  execute rejects a string longer than max_command_length as too     *)
(* long, whatever else is wrong with it, and hands nothing to the          *)
(* operating system; a string of at most that length is never rejected     *)
(* for its length.                                                         *)
(***************************************************************************)
C3_TooLongFirst ==
    Executed =>
        /\ Len(raw) > Config.max_command_length =>
               /\ outcome.exc = "CommandSecurityError"
               /\ outcome.kind = "CommandTooLong"
               /\ spawned = <<>>
               /\ child = NoChild
        /\ Len(raw) <= Config.max_command_length => outcome.kind # "CommandTooLong"

\* a string that is too long and holds an operator as well
C3_Witness ==
    /\ Executed
    /\ Len(raw) > Config.max_command_length
    /\ OperatorsIn(raw) # {}
    /\ outcome.kind = "CommandTooLong"

(***************************************************************************)
(* C4, as stated.  For an operator-free, well-formed string: a first token *)
(* that is no exact member of allowed_commands is rejected as              *)
(* command-not-allowed; with an allowed command, a '-' token that is no    *)
(* exact member of allowed_flags makes the rejection flag-not-allowed.     *)
(***************************************************************************)
C4_AsStated ==
    (Validated /\ Tokenized) =>
        /\ Command \notin Config.allowed_commands =>
               outcome.kind = "CommandNotAllowed" /\ outcome.token = Command
        /\ (/\ Command \in Config.allowed_commands
            /\ \E arg \in ToSet(Args) : FlagShaped(arg) /\ ~PassesFlagCheck(arg)) =>
               outcome.kind = "FlagNotAllowed"

(***************************************************************************)
(* C4, amended.  As above for the command name; with an allowed command, a *)
(* '-' token that is no exact member of allowed_flags makes                *)
(* validate_command fail, and the rejection is flag-not-allowed, naming    *)
(* that token, when every argument token before it passes its checks.      *)
(***************************************************************************)
C4_ExactMatch ==
    (Validated /\ Tokenized) =>
        /\ Command \notin Config.allowed_commands =>
               outcome.kind = "CommandNotAllowed" /\ outcome.token = Command
        /\ Command \in Config.allowed_commands => ExactFlags(Args)

\* a flag that only extends an allowed flag is rejected
C4_Witness ==
    /\ Validated
    /\ outcome.kind = "FlagNotAllowed"
    /\ \E f \in Config.allowed_flags : StartsWith(outcome.token, f) /\ outcome.token # f

(***************************************************************************)
(* C5.  A call of execute hands an argument vector to the operating system *)
(* only when the length check and every validation check accept the        *)
(* string; then it hands over exactly one, [command] + args as parsed,     *)
(* also when the process fails or times out.  No other call starts a       *)
(* process.                                                                *)
(***************************************************************************)
C5_OneSpawn ==
    /\ Executed =>
           IF /\ Len(raw) <= Config.max_command_length
              /\ Tokenized
              /\ Command \in Config.allowed_commands
              /\ AllPass(Args)
           THEN spawned = << <<Command>> \o Args >>
           ELSE spawned = <<>>
    /\ ~Executed => spawned = <<>>

\* a process that timed out: one argument vector, not two
C5_Witness ==
    /\ Executed
    /\ child.status = "killed"
    /\ Len(spawned) = 1

(***************************************************************************)
(* C6.  When the process of an accepted command needs longer than          *)
(* command_timeout, execute fails with the kind Timeout, which the caller  *)
(* sees as a timeout, and the child is gone; any other failure to run the  *)
(* command is ExecutionFailed.                                             *)
(***************************************************************************)
C6_TimeoutKind ==
    (Executed /\ spawned # <<>>) =>
        /\ child.needs > Config.command_timeout =>
               /\ outcome.kind = "Timeout"
               /\ response = "timed_out"
               /\ child.status = "killed"
        /\ child.status = "none" => outcome.kind = "ExecutionFailed"

(***************************************************************************)
(* C7.  No executor exists whose max_command_length or command_timeout is  *)
(* not positive, or whose allowed_commands is empty, nor one whose sandbox *)
(* root is empty or does not exist.                                        *)
(***************************************************************************)
C7_ConfigChecked ==
    phase = "up" =>
        /\ Config.max_command_length > 0
        /\ Config.command_timeout > 0
        /\ Config.allowed_commands # {}
        /\ executor.allowed_dir # <<>>
        /\ Exists(executor.allowed_dir)

(***************************************************************************)
(* C8.  Every non-flag argument token of an accepted command is matched as *)
(* a whole by some pattern of allowed_patterns.                            *)
(***************************************************************************)
C8_FullMatch ==
    (Validated /\ outcome.kind = "ok") =>
        \A i \in 1..Len(outcome.args) :
            ~FlagShaped(outcome.args[i]) => FullyMatched(outcome.args[i])

C10_FirstFailure ==
    Validated =>
        IF OperatorsIn(raw) # {} THEN outcome.kind = "UnsupportedOperator"
        ELSE IF ShlexSplit(raw).error # "" THEN outcome.kind = "InvalidCommandFormat"
        ELSE IF ShlexSplit(raw).parts = <<>> THEN outcome.kind = "EmptyCommand"
        ELSE IF Command \notin Config.allowed_commands
             THEN outcome.kind = "CommandNotAllowed" /\ outcome.token = Command
        ELSE IF ~AllPass(Args) THEN Reports(FirstFailing(Args))
        ELSE outcome.kind = "ok"

\* a path outside the root that matches no pattern either
C10_Witness ==
    /\ Validated
    /\ outcome.kind = "PathNotAllowed"
    /\ PatternCheck(outcome.token) = "nomatch"

(***************************************************************************)
(* C11.  validate_command either returns the pair (command, args) or fails *)
(* with CommandSecurityError carrying one of the validation rejections; no *)
(* other failure leaves it, whatever the string and the configuration,     *)
(* also when allowed_patterns holds an entry that is no valid regular      *)
(* expression and the token matches no pattern before it.                  *)
(***************************************************************************)
C11_OnlySecurityErrors ==
    Validated =>
        \/ outcome.exc = "" /\ outcome.kind = "ok"
        \/ /\ outcome.exc = "CommandSecurityError"
           /\ outcome.kind \in {"UnsupportedOperator", "InvalidCommandFormat", "EmptyCommand",
                                "CommandNotAllowed", "FlagNotAllowed", "PathNotAllowed",
                                "ArgumentNotAllowed"}

====
